---- MODULE Spec2Model ----
(***************************************************************************)
(* Session lifecycle, stream-frame decoder, event translator and broadcast *)
(* hub of the Code Studio server (spawnAgent, translateEvent,              *)
(* translateToolUse, broadcast and the /api/session routes).               *)
(*                                                                         *)
(* A subprocess stdout stream is a sequence of units.  A unit is one byte  *)
(* ("0A" newline, "20" space, "78" the letter x, "C3" and "A9" the two     *)
(* bytes of U+00E9 in UTF-8) or an ASCII run holding one JSON text (the    *)
(* j... units), which the pipe is never cut inside.                        *)
(***************************************************************************)
EXTENDS Naturals, Sequences, FiniteSets, TLC

\* ------------------------------------------------------------ bounds
MaxSessions == 2    \* spawnAgent calls in one run of the server
MaxTime == 1        \* Date.now() takes the values 0..MaxTime
MaxRand == 1        \* Math.random() takes MaxRand values
MaxOutput == 6      \* stdout units and stderr chunks delivered in one run
MaxStderr == 1      \* stderr 'data' callbacks per subprocess
MaxObservers == 2   \* WebSocket connections accepted in one run
MaxSignals == 2     \* SIGTERMs counted per subprocess (further ones are sent, not counted)

\* ------------------------------------------------------------ JS values
\* A JS object is a record holding its defined properties only; JSON.stringify
\* drops undefined properties, so a broadcast event is such a record too.
Has(obj, f) == f \in DOMAIN obj

Null == [k |-> "null"]

\* Map key of a property that may be undefined (a Map accepts undefined as key).
Undefined == "<undefined>"

KeyOf(obj, f) == IF Has(obj, f) THEN obj[f] ELSE Undefined

\* ------------------------------------------------------------ paths
PROJECT_DIR == <<"/", "w">>

PathA == <<"/", "w", "/", "a">>

\* A path outside PROJECT_DIR that has it as a string prefix: /w2/a
PathB == <<"/", "w", "2", "/", "a">>

\* A path outside PROJECT_DIR that does not have it as a prefix: /v/a
PathC == <<"/", "v", "/", "a">>

StartsWith(s, p) == Len(p) <= Len(s) /\ SubSeq(s, 1, Len(p)) = p

\* relativePath(filePath, workDir) for a defined filePath and workDir
relativePath(filePath, workDir) ==
  IF filePath = <<>> \/ workDir = <<>> THEN filePath
  ELSE IF StartsWith(filePath, workDir)
       THEN SubSeq(filePath, Len(workDir) + 2, Len(filePath))
       ELSE filePath

\* ------------------------------------------------------------ JSON texts
\* What JSON.parse returns for each JSON text unit.  A value that may be an
\* array, a string or a number is tagged by its kind: [array |-> <<...>>],
\* [string |-> ...], [number |-> ...].
JsonValue(t) ==
  CASE t = "jWrite" ->
         [type |-> "assistant",
          message |-> [content |-> [array |->
            <<[type |-> "tool_use", id |-> "x1", name |-> "Write",
               input |-> [file_path |-> PathA, content |-> "hi"]]>>]]]
    [] t = "jEdit" ->
         [type |-> "assistant",
          message |-> [content |-> [array |->
            <<[type |-> "tool_use", id |-> "x1", name |-> "Edit",
               input |-> [file_path |-> PathA]]>>]]]
    [] t = "jRes" ->
         [type |-> "user",
          message |-> [content |-> [array |->
            <<[type |-> "tool_result", tool_use_id |-> "x1", content |-> "ok"]>>]]]
    [] t = "jInit" ->
         [type |-> "system", subtype |-> "init", model |-> "m"]
    [] t = "jNull" -> Null
    [] t = "jNoInput" ->
         [type |-> "assistant",
          message |-> [content |-> [array |->
            <<[type |-> "tool_use", id |-> "x2", name |-> "Write"]>>]]]
    [] t = "jNullBlock" ->
         [type |-> "assistant",
          message |-> [content |-> [array |->
            <<[type |-> "text", text |-> "t"], Null>>]]]
    [] t = "jRes2" ->
         [type |-> "user",
          message |-> [content |-> [array |->
            <<[type |-> "tool_result", tool_use_id |-> "x1", content |-> "ok"],
              [type |-> "tool_result", tool_use_id |-> "x3", content |-> "no"],
              [type |-> "text", text |-> "u"]>>]]]
    [] t = "jRes4" ->
         [type |-> "user",
          message |-> [content |-> [array |->
            <<[type |-> "tool_result", tool_use_id |-> "x4", content |-> "ok"]>>]]]
    [] t = "jMixed" ->
         [type |-> "assistant",
          message |-> [content |-> [array |->
            <<[type |-> "text", text |-> "t1"],
              [type |-> "tool_use", id |-> "x4", name |-> "Read",
               input |-> [file_path |-> PathB]],
              [type |-> "text", text |-> ""],
              [type |-> "text", text |-> "t2"],
              [type |-> "tool_use", id |-> "x5", name |-> "Bash",
               input |-> [command |-> "ls"]]>>]]]
    [] t = "jTools" ->
         [type |-> "assistant",
          message |-> [content |-> [array |->
            <<[type |-> "tool_use", id |-> "x1", name |-> "Read",
               input |-> [file_path |-> PathC]],
              [type |-> "tool_use", id |-> "x3", name |-> "Glob",
               input |-> [pattern |-> "*"]],
              [type |-> "tool_use", id |-> "x6", name |-> "Grep",
               input |-> [pattern |-> "p", path |-> PathA]],
              [type |-> "tool_use", id |-> "x7", name |-> "Task",
               input |-> [subagent_type |-> "Explore", prompt |-> "q"]],
              [type |-> "tool_use", id |-> "x8", name |-> "WebFetch"]>>]]]
    [] t = "jResult" ->
         [type |-> "result", subtype |-> "success", is_error |-> FALSE, num_turns |-> 8]
    [] t = "jOther" ->
         [type |-> "stream_event", message |-> [content |-> [array |->
            <<[type |-> "text", text |-> "t"],
              [type |-> "tool_use", id |-> "x1", name |-> "Write",
               input |-> [file_path |-> PathA]]>>]]]
    [] t = "jSysOther" ->
         [type |-> "system", subtype |-> "status", model |-> "m"]

JsonTexts ==
  {"jWrite", "jEdit", "jRes", "jInit", "jNull", "jNoInput", "jNullBlock", "jRes2", "jRes4",
   "jMixed", "jTools", "jResult", "jOther", "jSysOther"}

\* ------------------------------------------------------------ decoder
\* chunk.toString(): UTF-8 decoding of one chunk on its own.  An incomplete or
\* stray byte of a multi-byte sequence decodes to U+FFFD.
RECURSIVE toString(_)
toString(chunk) ==
  IF chunk = <<>> THEN <<>>
  ELSE LET b == Head(chunk) IN
       IF b = "C3"
       THEN IF Len(chunk) >= 2 /\ chunk[2] = "A9"
            THEN <<"U+00E9">> \o toString(SubSeq(chunk, 3, Len(chunk)))
            ELSE <<"U+FFFD">> \o toString(Tail(chunk))
       ELSE IF b = "A9" THEN <<"U+FFFD">> \o toString(Tail(chunk))
       ELSE IF b = "0A" THEN <<"LF">> \o toString(Tail(chunk))
       ELSE IF b = "20" THEN <<"SP">> \o toString(Tail(chunk))
       ELSE IF b = "78" THEN <<"x">> \o toString(Tail(chunk))
       ELSE <<b>> \o toString(Tail(chunk))

\* buffer.split("\n"): the pieces between newlines, at least one piece
RECURSIVE split(_)
split(s) ==
  IF \A i \in 1..Len(s) : s[i] # "LF" THEN <<s>>
  ELSE LET i == CHOOSE j \in 1..Len(s) : s[j] = "LF" /\ \A h \in 1..(j - 1) : s[h] # "LF"
       IN <<SubSeq(s, 1, i - 1)>> \o split(SubSeq(s, i + 1, Len(s)))

WhiteSpace == {"SP"}

\* line.trim()
RECURSIVE trimLeft(_)
trimLeft(s) == IF s # <<>> /\ Head(s) \in WhiteSpace THEN trimLeft(Tail(s)) ELSE s

RECURSIVE trimRight(_)
trimRight(s) ==
  IF s # <<>> /\ s[Len(s)] \in WhiteSpace THEN trimRight(SubSeq(s, 1, Len(s) - 1)) ELSE s

trim(s) == trimRight(trimLeft(s))

\* JSON.parse(line): one JSON text with optional white space around it, or a
\* SyntaxError.
JSONparse(line) ==
  LET t == trim(line) IN
  IF Len(t) = 1 /\ t[1] \in JsonTexts
  THEN [ok |-> TRUE, value |-> JsonValue(t[1])]
  ELSE [ok |-> FALSE]

\* ------------------------------------------------------------ translation
\* An object with property f set to obj[g] when that is defined, else without it.
Opt(f, obj, g) == IF Has(obj, g) THEN [x \in {f} |-> obj[g]] ELSE [x \in {} |-> Null]

EmptyMap == [x \in {} |-> Null]

\* fileChanges.set(key, value)
MapSet(m, key, value) ==
  [x \in DOMAIN m \cup {key} |-> IF x = key THEN value ELSE m[x]]

\* name.toLowerCase() for the tool names of the catalogue
toLowerCase(name) ==
  CASE name = "WebFetch" -> "webfetch"
    [] OTHER -> name

\* `...${relativePath(input.file_path, workDir)}`: relativePath of an undefined
\* path is the empty string.
RelOf(input, workDir) ==
  IF Has(input, "file_path") THEN relativePath(input.file_path, workDir) ELSE <<>>

\* Mutant of translateToolUse: a Read invocation is registered in fileChanges
\* as Write and Edit are.
translateToolUseReadTracked(block, workDir, fileChanges) ==
  LET name == KeyOf(block, "name")
      id == KeyOf(block, "id")
      noInput == ~Has(block, "input") \/ block.input = Null
      input == IF noInput THEN EmptyMap ELSE block.input
      Threw == [threw |-> TRUE, fc |-> fileChanges, fields |-> EmptyMap]
      Ok(fc, fields) == [threw |-> FALSE, fc |-> fc, fields |-> fields]
  IN
  CASE name = "Write" ->
         IF noInput THEN Threw
         ELSE Ok(MapSet(fileChanges, id,
                        Opt("filePath", input, "file_path") @@ [action |-> "write"]),
                 [tool |-> "write", description |-> <<"Create">> \o RelOf(input, workDir)]
                   @@ Opt("filePath", input, "file_path")
                   @@ Opt("content", input, "content"))
    [] name = "Edit" ->
         IF noInput THEN Threw
         ELSE Ok(MapSet(fileChanges, id,
                        Opt("filePath", input, "file_path") @@ [action |-> "edit"]),
                 [tool |-> "edit", description |-> <<"Edit">> \o RelOf(input, workDir)]
                   @@ Opt("filePath", input, "file_path")
                   @@ Opt("oldString", input, "old_string")
                   @@ Opt("newString", input, "new_string"))
    [] name = "Read" ->
         IF noInput THEN Threw
         ELSE Ok(MapSet(fileChanges, id,
                        Opt("filePath", input, "file_path") @@ [action |-> "read"]),
                 [tool |-> "read", description |-> <<"Read">> \o RelOf(input, workDir)]
                   @@ Opt("filePath", input, "file_path"))
    [] name = "Bash" ->
         IF noInput THEN Threw
         ELSE Ok(fileChanges,
                 [tool |-> "bash"] @@ Opt("command", input, "command")
                   @@ (IF Has(input, "description")
                       THEN Opt("description", input, "description")
                       ELSE Opt("description", input, "command")))
    [] name = "Glob" ->
         IF noInput THEN Threw
         ELSE Ok(fileChanges, [tool |-> "glob"] @@ Opt("pattern", input, "pattern"))
    [] name = "Grep" ->
         IF noInput THEN Threw
         ELSE Ok(fileChanges,
                 [tool |-> "grep"] @@ Opt("pattern", input, "pattern")
                   @@ Opt("path", input, "path"))
    [] name = "Task" ->
         IF noInput THEN Threw
         ELSE Ok(fileChanges,
                 [tool |-> "task"] @@ Opt("subagentType", input, "subagent_type")
                   @@ Opt("taskDescription", input, "description")
                   @@ Opt("prompt", input, "prompt"))
    [] OTHER ->
         IF name = Undefined THEN Threw
         ELSE Ok(fileChanges,
                 [tool |-> toLowerCase(name)] @@ Opt("input", block, "input"))

\* translateToolUse(block, workDir, fileChanges): the translated fields, the
\* fileChanges map afterwards, and whether it threw (reading a property of an
\* undefined or null input, or calling toLowerCase on an undefined name).
translateToolUse(block, workDir, fileChanges) ==
  LET name == KeyOf(block, "name")
      id == KeyOf(block, "id")
      noInput == ~Has(block, "input") \/ block.input = Null
      input == IF noInput THEN EmptyMap ELSE block.input
      Threw == [threw |-> TRUE, fc |-> fileChanges, fields |-> EmptyMap]
      Ok(fc, fields) == [threw |-> FALSE, fc |-> fc, fields |-> fields]
  IN
  CASE name = "Write" ->
         IF noInput THEN Threw
         ELSE Ok(MapSet(fileChanges, id,
                        Opt("filePath", input, "file_path") @@ [action |-> "write"]),
                 [tool |-> "write", description |-> <<"Create">> \o RelOf(input, workDir)]
                   @@ Opt("filePath", input, "file_path")
                   @@ Opt("content", input, "content"))
    [] name = "Edit" ->
         IF noInput THEN Threw
         ELSE Ok(MapSet(fileChanges, id,
                        Opt("filePath", input, "file_path") @@ [action |-> "edit"]),
                 [tool |-> "edit", description |-> <<"Edit">> \o RelOf(input, workDir)]
                   @@ Opt("filePath", input, "file_path")
                   @@ Opt("oldString", input, "old_string")
                   @@ Opt("newString", input, "new_string"))
    [] name = "Read" ->
         IF noInput THEN Threw
         ELSE Ok(fileChanges,
                 [tool |-> "read", description |-> <<"Read">> \o RelOf(input, workDir)]
                   @@ Opt("filePath", input, "file_path"))
    [] name = "Bash" ->
         IF noInput THEN Threw
         ELSE Ok(fileChanges,
                 [tool |-> "bash"] @@ Opt("command", input, "command")
                   @@ (IF Has(input, "description")
                       THEN Opt("description", input, "description")
                       ELSE Opt("description", input, "command")))
    [] name = "Glob" ->
         IF noInput THEN Threw
         ELSE Ok(fileChanges, [tool |-> "glob"] @@ Opt("pattern", input, "pattern"))
    [] name = "Grep" ->
         IF noInput THEN Threw
         ELSE Ok(fileChanges,
                 [tool |-> "grep"] @@ Opt("pattern", input, "pattern")
                   @@ Opt("path", input, "path"))
    [] name = "Task" ->
         IF noInput THEN Threw
         ELSE Ok(fileChanges,
                 [tool |-> "task"] @@ Opt("subagentType", input, "subagent_type")
                   @@ Opt("taskDescription", input, "description")
                   @@ Opt("prompt", input, "prompt"))
    [] OTHER ->
         IF name = Undefined THEN Threw
         ELSE Ok(fileChanges,
                 [tool |-> toLowerCase(name)] @@ Opt("input", block, "input"))

\* event.message?.content, tagged "undefined" when it is undefined
ContentOf(event) ==
  IF Has(event, "message") /\ event.message # Null /\ Has(event.message, "content")
  THEN event.message.content
  ELSE [undefined |-> TRUE]

\* A translation in progress: the events broadcast so far, the fileChanges map,
\* and whether an exception has been thrown.
Acc(events, fc, threw) == [events |-> events, fc |-> fc, threw |-> threw]

\* Mutant of AssistantBlocks: a text block is broadcast whatever its text.
RECURSIVE AssistantBlocksAnyText(_, _, _, _, _)
AssistantBlocksAnyText(sessionId, blocks, i, workDir, acc) ==
  IF i > Len(blocks) THEN acc
  ELSE LET block == blocks[i] IN
       IF block = Null THEN Acc(acc.events, acc.fc, TRUE)
       ELSE IF KeyOf(block, "type") = "text"
       THEN AssistantBlocksAnyText(sessionId, blocks, i + 1, workDir,
              Acc(Append(acc.events,
                         [type |-> "fe_assistant_text", sessionId |-> sessionId]
                           @@ Opt("text", block, "text")),
                  acc.fc, FALSE))
       ELSE IF KeyOf(block, "type") = "tool_use"
       THEN LET t == translateToolUse(block, workDir, acc.fc) IN
            IF t.threw THEN Acc(acc.events, t.fc, TRUE)
            ELSE AssistantBlocksAnyText(sessionId, blocks, i + 1, workDir,
                   Acc(Append(acc.events,
                              [type |-> "fe_tool_call", sessionId |-> sessionId]
                                @@ Opt("toolCallId", block, "id") @@ t.fields),
                       t.fc, FALSE))
       ELSE AssistantBlocksAnyText(sessionId, blocks, i + 1, workDir, acc)

\* The loop over the blocks of an assistant message, from block i on.
RECURSIVE AssistantBlocks(_, _, _, _, _)
AssistantBlocks(sessionId, blocks, i, workDir, acc) ==
  IF i > Len(blocks) THEN acc
  ELSE LET block == blocks[i] IN
       IF block = Null THEN Acc(acc.events, acc.fc, TRUE)
       ELSE IF KeyOf(block, "type") = "text" /\ Has(block, "text") /\ block.text # ""
       THEN AssistantBlocks(sessionId, blocks, i + 1, workDir,
              Acc(Append(acc.events,
                         [type |-> "fe_assistant_text", sessionId |-> sessionId,
                          text |-> block.text]),
                  acc.fc, FALSE))
       ELSE IF KeyOf(block, "type") = "tool_use"
       THEN LET t == translateToolUse(block, workDir, acc.fc) IN
            IF t.threw THEN Acc(acc.events, t.fc, TRUE)
            ELSE AssistantBlocks(sessionId, blocks, i + 1, workDir,
                   Acc(Append(acc.events,
                              [type |-> "fe_tool_call", sessionId |-> sessionId]
                                @@ Opt("toolCallId", block, "id") @@ t.fields),
                       t.fc, FALSE))
       ELSE AssistantBlocks(sessionId, blocks, i + 1, workDir, acc)

\* Mutant of ToolResultEvents: the file change is broadcast before the result.
ToolResultEventsChangeFirst(sessionId, block, fileChanges) ==
  LET key == KeyOf(block, "tool_use_id") IN
  (IF key \in DOMAIN fileChanges
   THEN <<[type |-> "fe_file_changed", sessionId |-> sessionId,
           action |-> fileChanges[key].action]
            @@ Opt("filePath", fileChanges[key], "filePath")>>
   ELSE <<>>)
  \o <<[type |-> "fe_tool_result", sessionId |-> sessionId]
        @@ Opt("toolCallId", block, "tool_use_id") @@ Opt("output", block, "content")>>

\* The events of one tool_result block: fe_tool_result, then fe_file_changed
\* when fileChanges holds the block's tool_use_id.
ToolResultEvents(sessionId, block, fileChanges) ==
  LET key == KeyOf(block, "tool_use_id") IN
  <<[type |-> "fe_tool_result", sessionId |-> sessionId]
      @@ Opt("toolCallId", block, "tool_use_id") @@ Opt("output", block, "content")>>
  \o (IF key \in DOMAIN fileChanges
      THEN <<[type |-> "fe_file_changed", sessionId |-> sessionId,
              action |-> fileChanges[key].action]
               @@ Opt("filePath", fileChanges[key], "filePath")>>
      ELSE <<>>)

\* The loop over the blocks of a user message, from block i on.
RECURSIVE UserBlocks(_, _, _, _)
UserBlocks(sessionId, blocks, i, acc) ==
  IF i > Len(blocks) THEN acc
  ELSE LET block == blocks[i] IN
       IF block = Null THEN Acc(acc.events, acc.fc, TRUE)
       ELSE IF KeyOf(block, "type") = "tool_result"
       THEN UserBlocks(sessionId, blocks, i + 1,
              Acc(acc.events \o ToolResultEvents(sessionId, block, acc.fc), acc.fc, FALSE))
       ELSE UserBlocks(sessionId, blocks, i + 1, acc)

\* Mutant of translateEvent: every system record is taken for the init record.
translateEventAnySystem(sessionId, event, workDir, fileChanges) ==
  LET content == ContentOf(event)
      truthy == Has(content, "array") \/ (Has(content, "string") /\ content.string # "")
                  \/ (Has(content, "number") /\ content.number # 0)
  IN
  IF event = Null THEN Acc(<<>>, fileChanges, TRUE)
  ELSE IF KeyOf(event, "type") = "system"
  THEN Acc(<<[type |-> "fe_init", sessionId |-> sessionId,
              cwd |-> IF Has(event, "cwd") THEN event.cwd ELSE workDir]
               @@ Opt("model", event, "model") @@ Opt("tools", event, "tools")>>,
           fileChanges, FALSE)
  ELSE IF KeyOf(event, "type") = "result"
  THEN Acc(<<[type |-> "fe_result", sessionId |-> sessionId,
              success |-> ~(Has(event, "is_error") /\ event.is_error)]
               @@ Opt("result", event, "result") @@ Opt("numTurns", event, "num_turns")
               @@ Opt("costUsd", event, "total_cost_usd")>>,
           fileChanges, FALSE)
  ELSE IF KeyOf(event, "type") = "assistant" /\ truthy
  THEN IF Has(content, "array")
       THEN AssistantBlocks(sessionId, content.array, 1, workDir, Acc(<<>>, fileChanges, FALSE))
       ELSE IF Has(content, "string") THEN Acc(<<>>, fileChanges, FALSE)
       ELSE Acc(<<>>, fileChanges, TRUE)
  ELSE IF KeyOf(event, "type") = "user" /\ truthy
  THEN IF Has(content, "array")
       THEN UserBlocks(sessionId, content.array, 1, Acc(<<>>, fileChanges, FALSE))
       ELSE Acc(<<>>, fileChanges, FALSE)
  ELSE Acc(<<>>, fileChanges, FALSE)

\* translateEvent(sessionId, event, workDir, fileChanges): the events it
\* broadcasts, in order, the fileChanges map afterwards, and whether it threw.
translateEvent(sessionId, event, workDir, fileChanges) ==
  LET content == ContentOf(event)
      truthy == Has(content, "array") \/ (Has(content, "string") /\ content.string # "")
                  \/ (Has(content, "number") /\ content.number # 0)
  IN
  IF event = Null THEN Acc(<<>>, fileChanges, TRUE)
  ELSE IF KeyOf(event, "type") = "system" /\ KeyOf(event, "subtype") = "init"
  THEN Acc(<<[type |-> "fe_init", sessionId |-> sessionId,
              cwd |-> IF Has(event, "cwd") THEN event.cwd ELSE workDir]
               @@ Opt("model", event, "model") @@ Opt("tools", event, "tools")>>,
           fileChanges, FALSE)
  ELSE IF KeyOf(event, "type") = "result"
  THEN Acc(<<[type |-> "fe_result", sessionId |-> sessionId,
              success |-> ~(Has(event, "is_error") /\ event.is_error)]
               @@ Opt("result", event, "result") @@ Opt("numTurns", event, "num_turns")
               @@ Opt("costUsd", event, "total_cost_usd")>>,
           fileChanges, FALSE)
  ELSE IF KeyOf(event, "type") = "assistant" /\ truthy
  THEN IF Has(content, "array")
       THEN AssistantBlocks(sessionId, content.array, 1, workDir, Acc(<<>>, fileChanges, FALSE))
       ELSE IF Has(content, "string") THEN Acc(<<>>, fileChanges, FALSE)
       ELSE Acc(<<>>, fileChanges, TRUE)
  ELSE IF KeyOf(event, "type") = "user" /\ truthy
  THEN IF Has(content, "array")
       THEN UserBlocks(sessionId, content.array, 1, Acc(<<>>, fileChanges, FALSE))
       ELSE Acc(<<>>, fileChanges, FALSE)
  ELSE Acc(<<>>, fileChanges, FALSE)

\* ------------------------------------------------------------ stdout handler
\* Mutant of ForLines: a line that fails to parse is dropped (an empty catch).
RECURSIVE ForLinesSilent(_, _, _, _, _)
ForLinesSilent(sessionId, lines, i, workDir, acc) ==
  IF i > Len(lines) THEN acc
  ELSE LET line == lines[i] IN
       IF trim(line) = <<>> THEN ForLinesSilent(sessionId, lines, i + 1, workDir, acc)
       ELSE LET parsed == JSONparse(line) IN
            IF ~parsed.ok
            THEN ForLinesSilent(sessionId, lines, i + 1, workDir, acc)
            ELSE LET t == translateEvent(sessionId, parsed.value, workDir, acc.fc) IN
                 ForLinesSilent(sessionId, lines, i + 1, workDir,
                   Acc(acc.events
                         \o <<[type |-> "agent_event", sessionId |-> sessionId,
                               event |-> parsed.value]>>
                         \o t.events,
                       t.fc, FALSE))

\* Mutant of ForLines: translateEvent is called outside the try block, so what
\* it throws leaves the loop and the callback.
RECURSIVE ForLinesUncaught(_, _, _, _, _)
ForLinesUncaught(sessionId, lines, i, workDir, acc) ==
  IF i > Len(lines) THEN acc
  ELSE LET line == lines[i] IN
       IF trim(line) = <<>> THEN ForLinesUncaught(sessionId, lines, i + 1, workDir, acc)
       ELSE LET parsed == JSONparse(line)
                raw == [type |-> "raw_output", sessionId |-> sessionId, text |-> line]
            IN
            IF ~parsed.ok
            THEN ForLinesUncaught(sessionId, lines, i + 1, workDir,
                                  Acc(Append(acc.events, raw), acc.fc, FALSE))
            ELSE LET t == translateEvent(sessionId, parsed.value, workDir, acc.fc)
                     done == Acc(acc.events
                                   \o <<[type |-> "agent_event", sessionId |-> sessionId,
                                         event |-> parsed.value]>>
                                   \o t.events,
                                 t.fc, t.threw)
                 IN IF t.threw THEN done
                    ELSE ForLinesUncaught(sessionId, lines, i + 1, workDir, done)

\* Mutant of ForLines: the record is translated before it is passed through.
RECURSIVE ForLinesTranslateFirst(_, _, _, _, _)
ForLinesTranslateFirst(sessionId, lines, i, workDir, acc) ==
  IF i > Len(lines) THEN acc
  ELSE LET line == lines[i] IN
       IF trim(line) = <<>> THEN ForLinesTranslateFirst(sessionId, lines, i + 1, workDir, acc)
       ELSE LET parsed == JSONparse(line)
                raw == [type |-> "raw_output", sessionId |-> sessionId, text |-> line]
            IN
            IF ~parsed.ok
            THEN ForLinesTranslateFirst(sessionId, lines, i + 1, workDir,
                                        Acc(Append(acc.events, raw), acc.fc, FALSE))
            ELSE LET t == translateEvent(sessionId, parsed.value, workDir, acc.fc) IN
                 ForLinesTranslateFirst(sessionId, lines, i + 1, workDir,
                   Acc(acc.events
                         \o t.events
                         \o (IF t.threw THEN <<raw>>
                             ELSE <<[type |-> "agent_event", sessionId |-> sessionId,
                                     event |-> parsed.value]>>),
                       t.fc, FALSE))

\* The for-loop of the stdout 'data' handler over the complete lines, from
\* line i on: the events broadcast, the fileChanges map afterwards, and whether
\* an exception left the loop (the catch block leaves none).
RECURSIVE ForLines(_, _, _, _, _)
ForLines(sessionId, lines, i, workDir, acc) ==
  IF i > Len(lines) THEN acc
  ELSE LET line == lines[i] IN
       IF trim(line) = <<>> THEN ForLines(sessionId, lines, i + 1, workDir, acc)
       ELSE LET parsed == JSONparse(line)
                raw == [type |-> "raw_output", sessionId |-> sessionId, text |-> line]
            IN
            IF ~parsed.ok
            THEN ForLines(sessionId, lines, i + 1, workDir,
                          Acc(Append(acc.events, raw), acc.fc, FALSE))
            ELSE LET t == translateEvent(sessionId, parsed.value, workDir, acc.fc) IN
                 ForLines(sessionId, lines, i + 1, workDir,
                   Acc(acc.events
                         \o <<[type |-> "agent_event", sessionId |-> sessionId,
                               event |-> parsed.value]>>
                         \o t.events
                         \o (IF t.threw THEN <<raw>> ELSE <<>>),
                       t.fc, FALSE))

Reverse(seq) == [i \in 1..Len(seq) |-> seq[Len(seq) + 1 - i]]

\* Mutant of onStdoutData: the complete lines of a chunk are handled last first.
onStdoutDataNewestFirst(sessionId, workDir, buf, fileChanges, chunk) ==
  LET lines == split(buf \o toString(chunk))
      n == Len(lines)
      done == ForLines(sessionId, Reverse(SubSeq(lines, 1, n - 1)), 1, workDir,
                       Acc(<<>>, fileChanges, FALSE))
  IN [buffer |-> lines[n], lines |-> SubSeq(lines, 1, n - 1),
      events |-> done.events, fc |-> done.fc, threw |-> done.threw]

\* proc.stdout.on("data", chunk => ...): the new buffer, the complete lines it
\* split off, the events broadcast, the fileChanges map afterwards, and whether
\* an exception left the callback.
onStdoutData(sessionId, workDir, buf, fileChanges, chunk) ==
  LET lines == split(buf \o toString(chunk))
      n == Len(lines)
      done == ForLines(sessionId, SubSeq(lines, 1, n - 1), 1, workDir,
                       Acc(<<>>, fileChanges, FALSE))
  IN [buffer |-> lines[n], lines |-> SubSeq(lines, 1, n - 1),
      events |-> done.events, fc |-> done.fc, threw |-> done.threw]

\* ------------------------------------------------------------ state
VARIABLES
  up,           \* the server process is running
  now,          \* Date.now() when it was last read for a sessionId
  nproc,        \* spawnAgent closures created so far: 1..nproc
  sid,          \* sid[p]: the sessionId constant of closure p
  workDirs,     \* workDirs[p]: the workDir constant of closure p
  pstate,       \* pstate[p]: "none", "running", "failed" (spawn error), "closed"
  killed,       \* killed[p]: SIGTERM has been sent to subprocess p
  stream,       \* stream[p]: what subprocess p writes to stdout if left to run
  pos,          \* pos[p]: units of stream[p] delivered to the 'data' handler
  errs,         \* errs[p]: stderr 'data' callbacks so far
  buffer,       \* buffer[p]: the closure's let buffer
  fileChanges,  \* fileChanges[p]: the closure's Map
  frames,       \* history: the complete lines closure p has split off, in order
  sessions,     \* the sessions Map: sessionId -> closure whose session object it holds
  log,          \* history: every broadcast, in order, with the closure that made it
  resp,         \* status of the last HTTP response (0: none yet)
  signals,      \* history: signals[p]: SIGTERMs sent to subprocess p, up to MaxSignals
  clients,      \* clients[o]: connection o of wss.clients: "none" (not yet accepted),
                \*   "open" (readyState 1), "broken" (readyState 1, but the peer is
                \*   gone and a send fails), "closed" (readyState 2 or 3, or removed)
  inbox,        \* inbox[o]: the messages observer o has received, in order
  since,        \* history: Len(log) when connection o was accepted
  until         \* history: Len(log) when connection o broke or closed

vars == <<up, now, nproc, sid, workDirs, pstate, killed, stream, pos, errs, buffer,
          fileChanges, frames, sessions, log, resp, signals, clients, inbox, since, until>>

\* The connections and what they have received
hub == <<clients, inbox, since, until>>

Procs == 1..MaxSessions

Observers == 1..MaxObservers

\* Math.random().toString(36).slice(2, 6)
Rand == 1..MaxRand

\* Date.now(): the clock does not run backwards
Clock == now..MaxTime

\* stdout units and stderr chunks delivered so far
RECURSIVE Delivered(_)
Delivered(p) == IF p = 0 THEN 0 ELSE pos[p] + errs[p] + Delivered(p - 1)

\* Date.now().toString(36) + Math.random().toString(36).slice(2, 6)
SessionIdOf(t, r) == <<t, r>>

\* The sessionId slot of a closure not yet created; Rand never yields 0
NoId == <<0, 0>>

\* An id no spawnAgent call returns
UnknownId == NoId

\* What a subprocess writes to stdout in the runs that follow whole sessions.
ShortStreams == { <<"jInit", "0A">> }

\* What a subprocess writes to stdout in the runs that follow one stream.
Streams ==
  { <<"jWrite", "0A", "jRes", "0A", "jRes", "0A">>,
    <<"78", "0A", "20", "0A", "jInit", "0A">>,
    <<"C3", "A9", "0A", "78">>,
    <<"jRes", "0A", "jNoInput", "0A", "jNull", "0A">>,
    <<"jNullBlock", "0A", "jEdit", "0A", "jRes", "0A">> }

\* What a subprocess writes to stdout in the runs that follow the translation
\* of one record after another.
TranslateStreams ==
  { <<"jWrite", "0A", "jRes2", "0A">>,
    <<"jTools", "0A", "jRes2", "0A">>,
    <<"jMixed", "0A", "jRes4", "0A">>,
    <<"jNullBlock", "0A", "jEdit", "0A", "jRes", "0A">>,
    <<"jInit", "0A", "jResult", "0A", "jOther", "0A">>,
    <<"jSysOther", "0A", "jNoInput", "0A", "jRes", "0A">> }

\* broadcast(data) by closure p (0: by no closure)
Broadcast(p, events) == log \o [i \in 1..Len(events) |-> [proc |-> p, msg |-> events[i]]]

\* Mutant of Send: the loop over wss.clients ends at the first send that fails.
SendUntilFailure(events) ==
  [o \in Observers |->
     IF clients[o] = "open" /\ \A b \in 1..(o - 1) : clients[b] # "broken"
     THEN inbox[o] \o events ELSE inbox[o]]

\* Mutant of Send: readyState is not looked at.
SendToAll(events) ==
  [o \in Observers |-> IF clients[o] # "none" THEN inbox[o] \o events ELSE inbox[o]]

\* The loop of broadcast over wss.clients: what each observer has received
\* afterwards.  client.send on an open connection does not throw; when the
\* transport fails the message is lost for that connection only.
Send(events) ==
  [o \in Observers |-> IF clients[o] = "open" THEN inbox[o] \o events ELSE inbox[o]]

Init ==
  /\ up = TRUE
  /\ now = 0
  /\ nproc = 0
  /\ sid = [p \in Procs |-> NoId]
  /\ workDirs = [p \in Procs |-> PROJECT_DIR]
  /\ pstate = [p \in Procs |-> "none"]
  /\ killed = [p \in Procs |-> FALSE]
  /\ stream = [p \in Procs |-> <<>>]
  /\ pos = [p \in Procs |-> 0]
  /\ errs = [p \in Procs |-> 0]
  /\ buffer = [p \in Procs |-> <<>>]
  /\ fileChanges = [p \in Procs |-> EmptyMap]
  /\ frames = [p \in Procs |-> <<>>]
  /\ sessions = EmptyMap
  /\ log = <<>>
  /\ resp = 0
  /\ signals = [p \in Procs |-> 0]
  /\ clients = [o \in Observers |-> "none"]
  /\ inbox = [o \in Observers |-> <<>>]
  /\ since = [o \in Observers |-> 0]
  /\ until = [o \in Observers |-> 0]

\* POST /api/session without a prompt: 400.
CreateSessionNoPrompt ==
  /\ up
  /\ resp' = 400
  /\ UNCHANGED <<up, now, nproc, sid, workDirs, pstate, killed, stream, pos, errs, buffer,
                 fileChanges, frames, sessions, log, signals, hub>>

\* Mutant of SpawnAgentBody: session_start is not broadcast.
SpawnAgentBodyNoStart(p, prompt, t, r, st) ==
  /\ now' = t
  /\ nproc' = p
  /\ sid' = [sid EXCEPT ![p] = SessionIdOf(t, r)]
  /\ workDirs' = [workDirs EXCEPT ![p] = PROJECT_DIR]
  /\ pstate' = [pstate EXCEPT ![p] = st]
  /\ sessions' = MapSet(sessions, SessionIdOf(t, r), p)
  /\ log' = log
  /\ inbox' = inbox

\* spawnAgent up to its return, for closure p at time t with random suffix r.
SpawnAgentBody(p, prompt, t, r, st) ==
  /\ now' = t
  /\ nproc' = p
  /\ sid' = [sid EXCEPT ![p] = SessionIdOf(t, r)]
  /\ workDirs' = [workDirs EXCEPT ![p] = PROJECT_DIR]
  /\ pstate' = [pstate EXCEPT ![p] = st]
  /\ sessions' = MapSet(sessions, SessionIdOf(t, r), p)
  /\ log' = Broadcast(p, <<[type |-> "session_start", sessionId |-> SessionIdOf(t, r),
                            prompt |-> prompt, cwd |-> PROJECT_DIR]>>)
  /\ inbox' = Send(<<[type |-> "session_start", sessionId |-> SessionIdOf(t, r),
                      prompt |-> prompt, cwd |-> PROJECT_DIR]>>)

\* POST /api/session with a prompt; the subprocess starts and will write s.
CreateSession(prompt, t, r, s) ==
  /\ up
  /\ nproc < MaxSessions
  /\ SpawnAgentBody(nproc + 1, prompt, t, r, "running")
  /\ stream' = [stream EXCEPT ![nproc + 1] = s]
  /\ resp' = 200
  /\ UNCHANGED <<up, killed, pos, errs, buffer, fileChanges, frames, signals, clients,
                 since, until>>

\* POST /api/session with a prompt; spawn() fails with an error it reports by an
\* 'error' event on the next tick (ENOENT, EACCES: no such binary or cwd).
\* spawnAgent returns and the response is sent; then the 'error' event, which
\* has no listener, is thrown as an uncaught exception and ends the process.
CreateSessionSpawnError(prompt, t, r) ==
  /\ up
  /\ nproc < MaxSessions
  /\ SpawnAgentBody(nproc + 1, prompt, t, r, "failed")
  /\ resp' = 200
  /\ up' = FALSE
  /\ UNCHANGED <<killed, stream, pos, errs, buffer, fileChanges, frames, signals, clients,
                 since, until>>

\* POST /api/session with a prompt; spawn() throws (an error it does not defer,
\* or an invalid argument): the exception leaves spawnAgent before the session
\* is registered and Express answers 500.
CreateSessionSpawnThrows ==
  /\ up
  /\ resp' = 500
  /\ UNCHANGED <<up, now, nproc, sid, workDirs, pstate, killed, stream, pos, errs, buffer,
                 fileChanges, frames, sessions, log, signals, hub>>

\* The JSON bodies of POST /api/session: without a prompt, with an empty one,
\* with a prompt.
Bodies == { [x \in {} |-> Null], [prompt |-> ""], [prompt |-> "hello"] }

\* Mutant of PostSession: the prompt is not validated.
PostSessionNoCheck(body, t, r, s) ==
  LET prompt == KeyOf(body, "prompt") IN
  \/ CreateSession(prompt, t, r, s)
  \/ CreateSessionSpawnError(prompt, t, r)
  \/ CreateSessionSpawnThrows

\* POST /api/session: 400 when !prompt, else spawnAgent, which starts the
\* subprocess or fails in one of the two ways spawn() fails.
PostSession(body, t, r, s) ==
  IF ~(Has(body, "prompt") /\ body.prompt # "")
  THEN CreateSessionNoPrompt
  ELSE \/ CreateSession(body.prompt, t, r, s)
       \/ CreateSessionSpawnError(body.prompt, t, r)
       \/ CreateSessionSpawnThrows

\* One more SIGTERM, counted up to MaxSignals
Signalled(n) == IF n < MaxSignals THEN n + 1 ELSE n

\* Mutant of TerminateSession: the lookup result is not checked and the answer
\* is always ok.
TerminateSessionAlwaysOk(id) ==
  /\ up
  /\ IF id \in DOMAIN sessions
     THEN /\ killed' = [killed EXCEPT ![sessions[id]] = TRUE]
          /\ signals' = [signals EXCEPT ![sessions[id]] = Signalled(@)]
     ELSE UNCHANGED <<killed, signals>>
  /\ resp' = 200
  /\ UNCHANGED <<up, now, nproc, sid, workDirs, pstate, stream, pos, errs, buffer,
                 fileChanges, frames, sessions, log, hub>>

\* Mutant of TerminateSession: a session already signalled is refused (409).
TerminateSessionOnce(id) ==
  /\ up
  /\ IF id \in DOMAIN sessions
     THEN IF killed[sessions[id]]
          THEN /\ resp' = 409
               /\ UNCHANGED <<killed, signals>>
          ELSE /\ killed' = [killed EXCEPT ![sessions[id]] = TRUE]
               /\ signals' = [signals EXCEPT ![sessions[id]] = Signalled(@)]
               /\ resp' = 200
     ELSE /\ resp' = 404
          /\ UNCHANGED <<killed, signals>>
  /\ UNCHANGED <<up, now, nproc, sid, workDirs, pstate, stream, pos, errs, buffer,
                 fileChanges, frames, sessions, log, hub>>

\* DELETE /api/session/:id
TerminateSession(id) ==
  /\ up
  /\ IF id \in DOMAIN sessions
     THEN /\ killed' = [killed EXCEPT ![sessions[id]] = TRUE]
          /\ signals' = [signals EXCEPT ![sessions[id]] = Signalled(@)]
          /\ resp' = 200
     ELSE /\ resp' = 404
          /\ UNCHANGED <<killed, signals>>
  /\ UNCHANGED <<up, now, nproc, sid, workDirs, pstate, stream, pos, errs, buffer,
                 fileChanges, frames, sessions, log, hub>>

\* Mutant of StdoutData: fileChanges is one Map of the module, shared by every
\* session, instead of one Map per spawnAgent call.
StdoutDataSharedMap(p, n) ==
  /\ up
  /\ pstate[p] = "running"
  /\ n \in 1..(Len(stream[p]) - pos[p])
  /\ Delivered(MaxSessions) + n <= MaxOutput
  /\ LET keys == UNION {DOMAIN fileChanges[q] : q \in Procs}
         shared == [x \in keys |->
                      fileChanges[CHOOSE q \in Procs : x \in DOMAIN fileChanges[q]][x]]
         r == onStdoutData(sid[p], workDirs[p], buffer[p], shared,
                           SubSeq(stream[p], pos[p] + 1, pos[p] + n))
     IN /\ buffer' = [buffer EXCEPT ![p] = r.buffer]
        /\ fileChanges' = [q \in Procs |-> r.fc]
        /\ frames' = [frames EXCEPT ![p] = @ \o r.lines]
        /\ log' = Broadcast(p, r.events)
        /\ inbox' = Send(r.events)
        /\ up' = ~r.threw
  /\ pos' = [pos EXCEPT ![p] = @ + n]
  /\ UNCHANGED <<now, nproc, sid, workDirs, pstate, killed, stream, errs, sessions,
                 resp, signals, clients, since, until>>

\* proc.stdout 'data' with the next n units of the subprocess's output.  An
\* exception that leaves the callback is uncaught and ends the process.
StdoutData(p, n) ==
  /\ up
  /\ pstate[p] = "running"
  /\ n \in 1..(Len(stream[p]) - pos[p])
  /\ Delivered(MaxSessions) + n <= MaxOutput
  /\ LET r == onStdoutData(sid[p], workDirs[p], buffer[p], fileChanges[p],
                           SubSeq(stream[p], pos[p] + 1, pos[p] + n))
     IN /\ buffer' = [buffer EXCEPT ![p] = r.buffer]
        /\ fileChanges' = [fileChanges EXCEPT ![p] = r.fc]
        /\ frames' = [frames EXCEPT ![p] = @ \o r.lines]
        /\ log' = Broadcast(p, r.events)
        /\ inbox' = Send(r.events)
        /\ up' = ~r.threw
  /\ pos' = [pos EXCEPT ![p] = @ + n]
  /\ UNCHANGED <<now, nproc, sid, workDirs, pstate, killed, stream, errs, sessions,
                 resp, signals, clients, since, until>>

\* proc.stderr 'data'
StderrData(p) ==
  /\ up
  /\ pstate[p] = "running"
  /\ errs[p] < MaxStderr
  /\ Delivered(MaxSessions) < MaxOutput
  /\ errs' = [errs EXCEPT ![p] = @ + 1]
  /\ log' = Broadcast(p, <<[type |-> "stderr", sessionId |-> sid[p], text |-> "err"]>>)
  /\ inbox' = Send(<<[type |-> "stderr", sessionId |-> sid[p], text |-> "err"]>>)
  /\ UNCHANGED <<up, now, nproc, sid, workDirs, pstate, killed, stream, pos, buffer,
                 fileChanges, frames, sessions, resp, signals, clients, since, until>>

\* Exit codes: a number, or null for a subprocess ended by a signal
ExitCodes(p) == {"0"} \cup (IF killed[p] THEN {"null"} ELSE {})

\* Mutant of Close: the handler flushes the decoder remainder as a raw_output
\* before it announces the end.
CloseFlushes(p, code) ==
  LET rest == IF trim(buffer[p]) = <<>> THEN <<>>
              ELSE <<[type |-> "raw_output", sessionId |-> sid[p], text |-> buffer[p]]>>
      end == <<[type |-> "session_end", sessionId |-> sid[p], exitCode |-> code]>>
  IN /\ up
     /\ pstate[p] = "running"
     /\ pstate' = [pstate EXCEPT ![p] = "closed"]
     /\ sessions' = [x \in DOMAIN sessions \ {sid[p]} |-> sessions[x]]
     /\ log' = Broadcast(p, rest \o end)
     /\ inbox' = Send(rest \o end)
     /\ UNCHANGED <<up, now, nproc, sid, workDirs, killed, stream, pos, errs, buffer,
                    fileChanges, frames, resp, signals, clients, since, until>>

\* proc 'close': the subprocess has exited and its stdio streams have ended.
Close(p, code) ==
  /\ up
  /\ pstate[p] = "running"
  /\ pstate' = [pstate EXCEPT ![p] = "closed"]
  /\ sessions' = [x \in DOMAIN sessions \ {sid[p]} |-> sessions[x]]
  /\ log' = Broadcast(p, <<[type |-> "session_end", sessionId |-> sid[p],
                            exitCode |-> code]>>)
  /\ inbox' = Send(<<[type |-> "session_end", sessionId |-> sid[p], exitCode |-> code]>>)
  /\ UNCHANGED <<up, now, nproc, sid, workDirs, killed, stream, pos, errs, buffer,
                 fileChanges, frames, resp, signals, clients, since, until>>

\* Mutant of Connect: a 'connection' handler announces the new observer by a
\* broadcast.
ConnectAnnounced(o) ==
  /\ up
  /\ clients[o] = "none"
  /\ \A b \in 1..(o - 1) : clients[b] # "none"
  /\ clients' = [clients EXCEPT ![o] = "open"]
  /\ since' = [since EXCEPT ![o] = Len(log)]
  /\ log' = Broadcast(0, <<[type |-> "observer", sessionId |-> NoId]>>)
  /\ inbox' = Send(<<[type |-> "observer", sessionId |-> NoId]>>)
  /\ UNCHANGED <<up, now, nproc, sid, workDirs, pstate, killed, stream, pos, errs, buffer,
                 fileChanges, frames, sessions, resp, signals, until>>

\* A WebSocket connection is accepted on /ws and added to wss.clients.  Nothing
\* is sent to it on connection: no 'connection' handler is registered.
Connect(o) ==
  /\ up
  /\ clients[o] = "none"
  /\ \A b \in 1..(o - 1) : clients[b] # "none"
  /\ clients' = [clients EXCEPT ![o] = "open"]
  /\ since' = [since EXCEPT ![o] = Len(log)]
  /\ UNCHANGED <<up, now, nproc, sid, workDirs, pstate, killed, stream, pos, errs, buffer,
                 fileChanges, frames, sessions, log, resp, signals, inbox, until>>

\* The peer of connection o goes away without a closing handshake: readyState
\* stays 1 until the failure is noticed, and what is sent meanwhile is lost.
Break(o) ==
  /\ up
  /\ clients[o] = "open"
  /\ clients' = [clients EXCEPT ![o] = "broken"]
  /\ until' = [until EXCEPT ![o] = Len(log)]
  /\ UNCHANGED <<up, now, nproc, sid, workDirs, pstate, killed, stream, pos, errs, buffer,
                 fileChanges, frames, sessions, log, resp, signals, inbox, since>>

\* Connection o closes (the observer disconnects, or a failure is noticed):
\* readyState leaves 1 and the connection leaves wss.clients.
Disconnect(o) ==
  /\ up
  /\ clients[o] \in {"open", "broken"}
  /\ clients' = [clients EXCEPT ![o] = "closed"]
  /\ until' = [until EXCEPT ![o] = IF clients[o] = "open" THEN Len(log) ELSE @]
  /\ UNCHANGED <<up, now, nproc, sid, workDirs, pstate, killed, stream, pos, errs, buffer,
                 fileChanges, frames, sessions, log, resp, signals, inbox, since>>

Next ==
  \/ \E body \in Bodies, t \in Clock, r \in Rand, s \in ShortStreams :
       PostSession(body, t, r, s)
  \/ \E p \in 1..nproc : TerminateSession(sid[p])
  \/ TerminateSession(UnknownId)
  \/ \E p \in Procs, n \in 1..MaxOutput : StdoutData(p, n)
  \/ \E p \in Procs : StderrData(p)
  \/ \E p \in Procs, code \in {"0", "null"} : code \in ExitCodes(p) /\ Close(p, code)

Spec == Init /\ [][Next]_vars

\* The runs that follow the output of sessions nobody terminates.
NextStream ==
  \/ \E t \in Clock, r \in Rand, s \in Streams : CreateSession("hello", t, r, s)
  \/ \E p \in Procs, n \in 1..MaxOutput : StdoutData(p, n)
  \/ \E p \in Procs : StderrData(p)
  \/ \E p \in Procs : Close(p, "0")

StreamSpec == Init /\ [][NextStream]_vars

\* The runs that follow the translation of the records of sessions nobody
\* terminates.
NextTranslate ==
  \/ \E t \in Clock, r \in Rand, s \in TranslateStreams : CreateSession("hello", t, r, s)
  \/ \E p \in Procs, n \in 1..MaxOutput : StdoutData(p, n)
  \/ \E p \in Procs : Close(p, "0")

TranslateSpec == Init /\ [][NextTranslate]_vars

\* The runs that follow the observers of sessions nobody terminates.
NextHub ==
  \/ \E o \in Observers : Connect(o)
  \/ \E o \in Observers : Break(o)
  \/ \E o \in Observers : Disconnect(o)
  \/ \E r \in Rand, s \in ShortStreams : CreateSession("hello", now, r, s)
  \/ \E p \in Procs, n \in 1..MaxOutput : StdoutData(p, n)
  \/ \E p \in Procs : StderrData(p)
  \/ \E p \in Procs : Close(p, "0")

HubSpec == Init /\ [][NextHub]_vars

\* A signalled subprocess exits and the event loop runs its 'close' callback.
Fairness == \A p \in Procs : WF_vars(killed[p] /\ \E code \in ExitCodes(p) : Close(p, code))

FairSpec == Spec /\ Fairness

\* ------------------------------------------------------------ reading the log
LogIdx == 1..Len(log)

TypeAt(k) == log[k].msg.type

\* The event at k was broadcast by closure p with type ty.
IsAt(k, p, ty) == log[k].proc = p /\ TypeAt(k) = ty

\* How many events of type ty closure p has broadcast
CountOf(p, ty) == Cardinality({k \in LogIdx : IsAt(k, p, ty)})

\* The events a stdout 'data' handler broadcasts
StdoutTypes ==
  {"agent_event", "raw_output", "fe_init", "fe_result", "fe_assistant_text",
   "fe_tool_call", "fe_tool_result", "fe_file_changed"}

\* The messages closure p has broadcast from its stdout handler, in order
StdoutMsgs(p) ==
  LET FromStdout(e) == e.proc = p /\ e.msg.type \in StdoutTypes
      sel == SelectSeq(log, FromStdout)
  IN [i \in 1..Len(sel) |-> sel[i].msg]

RECURSIVE JoinLines(_)
JoinLines(fs) == IF fs = <<>> THEN <<>> ELSE Head(fs) \o <<"LF">> \o JoinLines(Tail(fs))

AllIds == {SessionIdOf(t, r) : t \in 0..MaxTime, r \in Rand} \cup {UnknownId}

ToolIds == {"x1"}

\* ------------------------------------------------------------ claims

\* C1: in one session, a Write or Edit invocation with identifier x followed by
\* its tool result yields exactly one fe_file_changed, and afterwards the
\* session's fileChanges map holds no entry for x (so a second result with the
\* same identifier yields no further fe_file_changed).
C1_OneFileChangedThenEntryGone ==
  \A p \in Procs, x \in ToolIds :
    (\E j \in LogIdx, k \in LogIdx :
        /\ j < k
        /\ IsAt(j, p, "fe_tool_call") /\ log[j].msg.tool \in {"write", "edit"}
        /\ KeyOf(log[j].msg, "toolCallId") = x
        /\ IsAt(k, p, "fe_tool_result") /\ KeyOf(log[k].msg, "toolCallId") = x)
    => CountOf(p, "fe_file_changed") = 1 /\ x \notin DOMAIN fileChanges[p]

\* C2: every event other than session_start is preceded in the broadcast order
\* by the session_start of the session that broadcast it, which bears the same
\* session id.
C2_StartPrecedesAll ==
  \A k \in LogIdx :
    TypeAt(k) # "session_start" =>
      \E j \in 1..(k - 1) :
        /\ IsAt(j, log[k].proc, "session_start")
        /\ log[j].msg.sessionId = log[k].msg.sessionId

C2_Witness ==
  \E p \in Procs :
    /\ CountOf(p, "agent_event") > 0 /\ CountOf(p, "fe_init") > 0
    /\ CountOf(p, "stderr") > 0 /\ CountOf(p, "session_end") > 0

\* C3: once session_end for a session id has been broadcast, no agent_event,
\* raw_output, stderr or fe_* event with that id is broadcast afterwards.
C3_EndIsLastForId ==
  \A j \in LogIdx, k \in LogIdx :
    (j < k /\ TypeAt(j) = "session_end" /\ log[k].msg.sessionId = log[j].msg.sessionId)
    => TypeAt(k) \in {"session_start", "session_end"}

\* The same for the events of one session (one spawnAgent call): its
\* session_end is the last event it broadcasts.
EndIsLastOfSession ==
  \A j \in LogIdx, k \in LogIdx :
    (j < k /\ TypeAt(j) = "session_end") => log[k].proc # log[j].proc

\* C4 as stated: every complete line that fails to parse yields exactly one
\* raw_output event carrying it verbatim.
C4_EveryUnparseableLineIsRawOutput ==
  \A p \in Procs : \A i \in 1..Len(frames[p]) :
    ~JSONparse(frames[p][i]).ok =>
      Cardinality({k \in LogIdx : IsAt(k, p, "raw_output") /\ log[k].msg.text = frames[p][i]})
        = Cardinality({h \in 1..Len(frames[p]) : frames[p][h] = frames[p][i]})

\* C4 as amended: every complete line that holds something other than white
\* space and fails to parse yields exactly one raw_output event carrying it
\* verbatim, and every line that parses yields its agent_event, whatever lines
\* came before it.
C4_NonBlankUnparseableLineIsRawOutput ==
  \A p \in Procs : \A i \in 1..Len(frames[p]) :
    LET line == frames[p][i]
        parsed == JSONparse(line)
    IN
    /\ (~parsed.ok /\ trim(line) # <<>>) =>
         Cardinality({k \in LogIdx : IsAt(k, p, "raw_output") /\ log[k].msg.text = line})
           = Cardinality({h \in 1..Len(frames[p]) : frames[p][h] = line})
    /\ parsed.ok =>
         Cardinality({k \in LogIdx : IsAt(k, p, "agent_event") /\ log[k].msg.event = parsed.value})
           = Cardinality({h \in 1..Len(frames[p]) :
                            JSONparse(frames[p][h]).ok
                            /\ JSONparse(frames[p][h]).value = parsed.value})

\* A malformed line, a blank line and a valid frame after them have been handled.
C4_Witness ==
  \E p \in Procs :
    /\ frames[p] = << <<"x">>, <<"SP">>, <<"jInit">> >>
    /\ CountOf(p, "raw_output") = 1
    /\ CountOf(p, "fe_init") = 1

\* C5: the frames split off so far, each with its newline restored, followed
\* by the remainder, are the stream delivered so far, however it was cut into
\* chunks.
C5_FramesRebuildStream ==
  \A p \in Procs :
    JoinLines(frames[p]) \o buffer[p] = toString(SubSeq(stream[p], 1, pos[p]))

\* C6: the events a session broadcasts from its stdout are, in order, the
\* events of its first frame, then those of its second frame, and so on,
\* whatever the chunks the frames arrived in.
C6_EventsInFrameOrder ==
  \A p \in Procs :
    StdoutMsgs(p)
      = ForLines(sid[p], frames[p], 1, workDirs[p], Acc(<<>>, EmptyMap, FALSE)).events

\* Three frames have been handled, two of them in one chunk or each in its own.
C6_Witness ==
  \E p \in Procs : Len(frames[p]) = 3 /\ Len(StdoutMsgs(p)) >= 6

\* C7: a spawn failure is surfaced as a session_end event of that session; it
\* is not an exception leaving spawnAgent and it does not end the server
\* process.
C7_SpawnFailureIsSessionEnd ==
  /\ resp # 500
  /\ \A p \in Procs : pstate[p] = "failed" => up /\ CountOf(p, "session_end") > 0

\* C8: DELETE /api/session/:id with an id the sessions map does not hold
\* answers 404 and changes nothing else: no signal, no registry change, no
\* broadcast.
C8_TerminateUnknownNoEffect ==
  [][\A id \in AllIds :
       (id \notin DOMAIN sessions /\ TerminateSession(id)) =>
         /\ resp' = 404
         /\ UNCHANGED <<up, now, nproc, sid, workDirs, pstate, killed, stream, pos, errs,
                        buffer, fileChanges, frames, sessions, log, signals, hub>>]_vars

\* An unknown id was refused while a subprocess was running unsignalled.
C8_Witness ==
  resp = 404 /\ \E p \in Procs : pstate[p] = "running" /\ ~killed[p]

\* C9: after DELETE /api/session/:id has signalled a session's subprocess, the
\* session's session_end is eventually broadcast and its id leaves the registry.
C9_TerminateLeadsToSessionEnd ==
  \A p \in Procs :
    (killed[p] /\ pstate[p] = "running")
      ~> (CountOf(p, "session_end") > 0 /\ sid[p] \notin DOMAIN sessions)

\* The same, unless the server process has ended meanwhile.
TerminateLeadsToSessionEndOrCrash ==
  \A p \in Procs :
    (killed[p] /\ pstate[p] = "running")
      ~> (~up \/ (CountOf(p, "session_end") > 0 /\ sid[p] \notin DOMAIN sessions))

\* C10: at every moment the registry holds exactly the ids of the sessions
\* whose subprocess has been spawned and has not exited, and a session that
\* has exited has broadcast session_end exactly once.
C10_RegistryIsLiveSessions ==
  up =>
    /\ DOMAIN sessions = {sid[p] : p \in {q \in Procs : pstate[q] = "running"}}
    /\ \A p \in Procs :
         CountOf(p, "session_end") = (IF pstate[p] = "closed" THEN 1 ELSE 0)

\* C11: session ids are unique and never reused: no two spawnAgent calls
\* receive the same id, so a registration never overwrites the entry of another
\* session and every running session's id maps to that session.
C11_SessionIdsUnique ==
  /\ \A p \in 1..nproc, q \in 1..nproc : p # q => sid[p] # sid[q]
  /\ \A p \in Procs :
       (up /\ pstate[p] = "running") => (sid[p] \in DOMAIN sessions /\ sessions[sid[p]] = p)

\* C12: the filePath of every fe_file_changed is relative to the session's
\* working directory when the path lies under it: a Write of /w/a in a session
\* with working directory /w, followed by its tool result, yields
\* fe_file_changed with filePath a and action write.
C12_FileChangedPathIsRelative ==
  \A k \in LogIdx :
    TypeAt(k) = "fe_file_changed" =>
      /\ KeyOf(log[k].msg, "filePath") = relativePath(PathA, workDirs[log[k].proc])
      /\ (stream[log[k].proc][1] = "jWrite" => log[k].msg.action = "write")

\* The messages broadcast so far, in order
LogMsgs == [i \in LogIdx |-> log[i].msg]

\* C13: a broadcast made while the delivery to some observer fails still
\* reaches every other open observer, and no error comes back to the producer
\* of the event: the server stays up and no request is answered 500.
C13_FailedDeliveryIsIsolated ==
  [][(Len(log') > Len(log) /\ \E b \in Observers : clients[b] = "broken") =>
       /\ \A o \in Observers :
            clients[o] = "open" =>
              inbox'[o] = inbox[o] \o [i \in 1..(Len(log') - Len(log)) |-> log'[Len(log) + i].msg]
       /\ up' /\ resp' # 500]_vars

\* An event broadcast after connection b broke has reached observer o, which
\* comes after b in wss.clients.
C13_Witness ==
  \E b \in Observers, o \in Observers :
    /\ b < o /\ clients[b] = "broken" /\ clients[o] = "open"
    /\ Len(log) > until[b] /\ since[o] <= until[b]
    /\ inbox[o] = SubSeq(LogMsgs, since[o] + 1, Len(log))

\* C14: an observer has received exactly the events broadcast while its
\* connection was open: none from before it attached (no replay), none from
\* after it broke or closed, and all of those in between, in order.
C14_ReceivedIsBroadcastWhileOpen ==
  \A o \in Observers :
    inbox[o] = IF clients[o] = "none" THEN <<>>
               ELSE SubSeq(LogMsgs, since[o] + 1,
                           IF clients[o] = "open" THEN Len(log) ELSE until[o])

\* One observer attached after events had been broadcast and has received
\* later ones; another received events, closed, and events followed.
C14_Witness ==
  \E o \in Observers, c \in Observers :
    /\ clients[o] = "open" /\ since[o] > 0 /\ inbox[o] # <<>>
    /\ clients[c] = "closed" /\ inbox[c] # <<>> /\ until[c] < Len(log)

\* C15: POST /api/session whose body has no prompt, or an empty one, is
\* answered 400 and changes nothing else: no closure, no registry entry, no
\* session_start, nothing sent to any observer.
C15_NoPromptNoEffect ==
  [][\A body \in Bodies, t \in Clock, r \in Rand, s \in ShortStreams :
       (~(Has(body, "prompt") /\ body.prompt # "") /\ PostSession(body, t, r, s)) =>
         /\ resp' = 400
         /\ UNCHANGED <<up, now, nproc, sid, workDirs, pstate, killed, stream, pos, errs,
                        buffer, fileChanges, frames, sessions, log, signals, hub>>]_vars

\* A request without a prompt was refused after one session had started, and
\* the session_start of that session is still all that was broadcast.
C15_Witness ==
  resp = 400 /\ nproc = 1 /\ pstate[1] = "running" /\ Len(log) = 1

\* C16: DELETE /api/session/:id for a registered session that has already been
\* signalled and has not exited is answered 200 and changes neither the
\* registry nor the broadcast log nor any session: it only sends the signal
\* again.
C16_TerminateAgainIsOk ==
  [][\A id \in AllIds :
       (/\ id \in DOMAIN sessions
        /\ killed[sessions[id]] /\ pstate[sessions[id]] = "running"
        /\ TerminateSession(id)) =>
         /\ resp' = 200
         /\ UNCHANGED <<up, now, nproc, sid, workDirs, pstate, killed, stream, pos, errs,
                        buffer, fileChanges, frames, sessions, log, hub>>]_vars

\* A running session has been signalled twice, the second request was accepted,
\* and no session_end has been broadcast for it.
C16_Witness ==
  \E p \in Procs :
    /\ signals[p] = 2 /\ pstate[p] = "running" /\ resp = 200
    /\ sid[p] \in DOMAIN sessions /\ CountOf(p, "session_end") = 0

\* The records of the frames of closure p that parse, in frame order
ParsedFrames(p) ==
  LET Parses(f) == trim(f) # <<>> /\ JSONparse(f).ok
      sel == SelectSeq(frames[p], Parses)
  IN [i \in 1..Len(sel) |-> JSONparse(sel[i]).value]

\* The records closure p has passed through as agent_event, in order
PassedThrough(p) ==
  LET IsAgentEvent(m) == m.type = "agent_event"
      sel == SelectSeq(StdoutMsgs(p), IsAgentEvent)
  IN [i \in 1..Len(sel) |-> sel[i].event]

FeTypes == StdoutTypes \ {"agent_event", "raw_output"}

\* C17: every line that parses yields exactly one agent_event carrying the
\* parsed record unchanged, whatever its kind, and every fe_* event comes after
\* the agent_event of its frame: between that agent_event and the fe_* event
\* the session broadcasts only fe_* events.
C17_AgentEventFirst ==
  \A p \in Procs :
    /\ PassedThrough(p) = ParsedFrames(p)
    /\ LET m == StdoutMsgs(p) IN
       \A k \in 1..Len(m) :
         m[k].type \in FeTypes =>
           \E j \in 1..(k - 1) :
             /\ m[j].type = "agent_event"
             /\ \A h \in (j + 1)..(k - 1) : m[h].type \in FeTypes

\* A session has handled three frames that parse, one translated to a text
\* event, one to a tool call, and one to a tool result and a file change.
C17_Witness ==
  \E p \in Procs :
    /\ Len(ParsedFrames(p)) = 3
    /\ CountOf(p, "agent_event") = 3
    /\ CountOf(p, "fe_tool_result") = 1 /\ CountOf(p, "fe_file_changed") = 1
    /\ CountOf(p, "fe_assistant_text") = 1

\* C18: raw_output is broadcast only for lines that fail to parse: the text of
\* every raw_output is a line JSON.parse rejects, so no frame yields both an
\* agent_event and a raw_output.
C18_RawOutputOnlyForUnparseable ==
  \A k \in LogIdx :
    TypeAt(k) = "raw_output" => ~JSONparse(log[k].msg.text).ok

\* The frames of closure p that hold something other than white space
NonBlankFrames(p) == {i \in 1..Len(frames[p]) : trim(frames[p][i]) # <<>>}

\* C19: no line of subprocess output lets an exception leave the stdout
\* handler or ends the server process, and the handler goes on to the next
\* line: the server is up, and every frame that is not blank has been answered
\* by its agent_event or, when it does not parse, by its raw_output.
C19_NoLineEscapes ==
  /\ up
  /\ \A p \in Procs :
       Len(PassedThrough(p))
         + Cardinality({k \in LogIdx : IsAt(k, p, "raw_output")
                                        /\ ~JSONparse(log[k].msg.text).ok})
       = Cardinality(NonBlankFrames(p))

\* A session has handled a tool invocation without input and the line null,
\* each passed through and then answered by raw_output, after a tool result.
C19_Witness ==
  \E p \in Procs :
    /\ frames[p] = << <<"jRes">>, <<"jNoInput">>, <<"jNull">> >>
    /\ CountOf(p, "agent_event") = 3 /\ CountOf(p, "raw_output") = 2

\* C20: sessions are independent.  Output delivered to one session leaves the
\* buffer and the fileChanges map of every other session unchanged, and a
\* session broadcasts fe_file_changed for a tool result only when its own
\* fileChanges map holds the result's identifier.
C20_SessionsIndependent ==
  [][\A p \in Procs, n \in 1..MaxOutput :
       StdoutData(p, n) =>
         /\ \A q \in Procs \ {p} :
              buffer'[q] = buffer[q] /\ fileChanges'[q] = fileChanges[q]
                /\ frames'[q] = frames[q]
         /\ \A k \in (Len(log) + 1)..Len(log') :
              log'[k].msg.type = "fe_file_changed" =>
                \E j \in (Len(log) + 1)..(k - 1) :
                  /\ log'[j].msg.type = "fe_tool_result"
                  /\ KeyOf(log'[j].msg, "toolCallId") \in DOMAIN fileChanges'[p]]_vars

\* Session a has registered x1 by a Write; after that, session b has handled
\* a tool result for x1, without a file change, and its own map is empty.
C20_Witness ==
  \E a \in Procs, b \in Procs :
    /\ a # b
    /\ "x1" \in DOMAIN fileChanges[a] /\ fileChanges[b] = EmptyMap
    /\ CountOf(b, "fe_tool_result") = 1 /\ CountOf(b, "fe_file_changed") = 0
    /\ \E j \in LogIdx, k \in LogIdx :
         j < k /\ IsAt(j, a, "fe_tool_call") /\ IsAt(k, b, "fe_tool_result")

\* C21: an observer connecting, breaking or disconnecting leaves all session
\* state unchanged: the registry, every session's buffer, fileChanges map and
\* subprocess, the events broadcast so far and the server itself.
C21_ObserversLeaveSessionsAlone ==
  [][\A o \in Observers :
       (Connect(o) \/ Break(o) \/ Disconnect(o)) =>
         UNCHANGED <<up, now, nproc, sid, workDirs, pstate, killed, stream, pos, errs, buffer,
                     fileChanges, frames, sessions, log, resp, signals>>]_vars

\* An observer attached and left right after a session_start, and the session
\* went on to handle its first line and broadcast the events of it.
C21_Witness ==
  \E o \in Observers, p \in Procs :
    /\ clients[o] = "closed" /\ since[o] = until[o]
    /\ since[o] = 1 /\ CountOf(p, "session_start") = 1
    /\ CountOf(p, "fe_init") = 1 /\ pos[p] = 2 /\ frames[p] = << <<"jInit">> >>

\* The events the step has added to the broadcast log
NewMsgs == [i \in 1..(Len(log') - Len(log)) |-> log'[Len(log) + i].msg]

\* The tool_use_id of the tool_result blocks of a record, in block order
RECURSIVE ResultIds(_)
ResultIds(blocks) ==
  IF blocks = <<>> THEN <<>>
  ELSE (IF Head(blocks) # Null /\ KeyOf(Head(blocks), "type") = "tool_result"
        THEN <<KeyOf(Head(blocks), "tool_use_id")>> ELSE <<>>)
       \o ResultIds(Tail(blocks))

\* The events after position k of a sequence of events, up to the next
\* agent_event or raw_output
RECURSIVE FrameTail(_, _)
FrameTail(m, k) ==
  IF k >= Len(m) \/ m[k + 1].type \in {"agent_event", "raw_output"} THEN <<>>
  ELSE <<m[k + 1]>> \o FrameTail(m, k + 1)

\* C22: in a step of the stdout handler, a user record with tool_result blocks
\* yields one fe_tool_result per block, in block order, with the block's
\* identifier; a fe_tool_result whose identifier the session's fileChanges map
\* holds at that moment is followed at once by the fe_file_changed of that
\* entry, one whose identifier it does not hold is not followed by a
\* fe_file_changed, and no fe_file_changed comes otherwise.
C22_FileChangedRightAfterItsResult ==
  [][\A p \in Procs, n \in 1..MaxOutput :
       StdoutData(p, n) =>
         LET m == NewMsgs
             Registered(k, id) ==
               \/ id \in DOMAIN fileChanges[p]
               \/ \E j \in 1..(k - 1) :
                    /\ m[j].type = "fe_tool_call" /\ m[j].tool \in {"write", "edit"}
                    /\ KeyOf(m[j], "toolCallId") = id
         IN \A k \in 1..Len(m) :
              /\ (m[k].type = "agent_event" /\ m[k].event # Null
                    /\ KeyOf(m[k].event, "type") = "user"
                    /\ Has(ContentOf(m[k].event), "array")) =>
                   LET IsResult(e) == e.type = "fe_tool_result"
                       res == SelectSeq(FrameTail(m, k), IsResult)
                   IN [i \in 1..Len(res) |-> KeyOf(res[i], "toolCallId")]
                        = ResultIds(ContentOf(m[k].event).array)
              /\ m[k].type = "fe_tool_result" =>
                   LET id == KeyOf(m[k], "toolCallId") IN
                   IF Registered(k, id)
                   THEN /\ k < Len(m) /\ m[k + 1].type = "fe_file_changed"
                        /\ m[k + 1].action = fileChanges'[p][id].action
                        /\ KeyOf(m[k + 1], "filePath") = KeyOf(fileChanges'[p][id], "filePath")
                   ELSE k = Len(m) \/ m[k + 1].type # "fe_file_changed"
              /\ m[k].type = "fe_file_changed" => (k > 1 /\ m[k - 1].type = "fe_tool_result")]_vars

\* A session has handled a user record with two tool_result blocks, the first
\* for a registered Write and the second for an identifier never registered:
\* result, file change, result.
C22_Witness ==
  \E p \in Procs :
    LET m == StdoutMsgs(p) IN
    /\ frames[p] = << <<"jWrite">>, <<"jRes2">> >>
    /\ Len(m) = 6
    /\ m[4].type = "fe_tool_result" /\ m[5].type = "fe_file_changed"
    /\ m[6].type = "fe_tool_result" /\ m[6].toolCallId = "x3"

\* The identifiers of the Write and Edit invocations of the assistant records
\* among the events m
MutatingIds(m) ==
  UNION { LET e == m[k].event
              blocks == IF e # Null /\ KeyOf(e, "type") = "assistant"
                           /\ Has(ContentOf(e), "array")
                        THEN ContentOf(e).array ELSE <<>>
          IN { KeyOf(blocks[i], "id") :
                 i \in { h \in 1..Len(blocks) :
                           /\ blocks[h] # Null
                           /\ KeyOf(blocks[h], "type") = "tool_use"
                           /\ KeyOf(blocks[h], "name") \in {"Write", "Edit"} } }
        : k \in { h \in 1..Len(m) : m[h].type = "agent_event" } }

\* C23: a step of the stdout handler adds to the session's fileChanges map
\* only identifiers of Write or Edit invocations of assistant records handled
\* in that step and removes none, and a fe_file_changed is broadcast only
\* after a result whose identifier a Write or Edit invocation of the session
\* has carried.
C23_OnlyWriteAndEditAreTracked ==
  [][\A p \in Procs, n \in 1..MaxOutput :
       StdoutData(p, n) =>
         /\ DOMAIN fileChanges[p] \subseteq DOMAIN fileChanges'[p]
         /\ (DOMAIN fileChanges'[p] \ DOMAIN fileChanges[p]) \subseteq MutatingIds(NewMsgs)
         /\ \A k \in 1..Len(NewMsgs) :
              NewMsgs[k].type = "fe_file_changed" =>
                /\ k > 1
                /\ KeyOf(NewMsgs[k - 1], "toolCallId")
                     \in MutatingIds([i \in 1..Len(log') |-> log'[i].msg])]_vars

\* A session has translated Read, Glob, Grep, Task and WebFetch invocations
\* and then the results for two of their identifiers: its map is empty and no
\* file change was broadcast.
C23_Witness ==
  \E p \in Procs :
    /\ frames[p] = << <<"jTools">>, <<"jRes2">> >>
    /\ CountOf(p, "fe_tool_call") = 5 /\ CountOf(p, "fe_tool_result") = 2
    /\ CountOf(p, "fe_file_changed") = 0 /\ fileChanges[p] = EmptyMap

\* The tools translateToolUse has a case for
Catalogue == {"Write", "Edit", "Read", "Bash", "Glob", "Grep", "Task"}

\* The kind and the text or identifier of the fe_assistant_text and
\* fe_tool_call events among the events m, in order
TextsAndCalls(m) ==
  LET Is(e) == e.type \in {"fe_assistant_text", "fe_tool_call"}
      sel == SelectSeq(m, Is)
  IN [i \in 1..Len(sel) |->
        IF sel[i].type = "fe_assistant_text"
        THEN <<"fe_assistant_text", KeyOf(sel[i], "text")>>
        ELSE <<"fe_tool_call", KeyOf(sel[i], "toolCallId")>>]

\* One fe_assistant_text per text block and one fe_tool_call per tool_use
\* block, in block order
RECURSIVE OnePerBlock(_)
OnePerBlock(blocks) ==
  IF blocks = <<>> THEN <<>>
  ELSE LET b == Head(blocks) IN
       (IF b # Null /\ KeyOf(b, "type") = "text"
        THEN << <<"fe_assistant_text", KeyOf(b, "text")>> >>
        ELSE IF b # Null /\ KeyOf(b, "type") = "tool_use"
        THEN << <<"fe_tool_call", KeyOf(b, "id")>> >>
        ELSE <<>>)
       \o OnePerBlock(Tail(blocks))

\* The same for the text blocks whose text is not empty, up to the first block
\* that is null, or is an invocation without a name, or is an invocation of a
\* tool of the catalogue without input
RECURSIVE OnePerTranslatedBlock(_)
OnePerTranslatedBlock(blocks) ==
  IF blocks = <<>> THEN <<>>
  ELSE LET b == Head(blocks) IN
       IF b = Null THEN <<>>
       ELSE IF KeyOf(b, "type") = "text"
       THEN (IF Has(b, "text") /\ b.text # ""
             THEN << <<"fe_assistant_text", b.text>> >> ELSE <<>>)
            \o OnePerTranslatedBlock(Tail(blocks))
       ELSE IF KeyOf(b, "type") = "tool_use"
       THEN IF ~Has(b, "name")
               \/ (b.name \in Catalogue /\ (~Has(b, "input") \/ b.input = Null))
            THEN <<>>
            ELSE << <<"fe_tool_call", KeyOf(b, "id")>> >>
                 \o OnePerTranslatedBlock(Tail(blocks))
       ELSE OnePerTranslatedBlock(Tail(blocks))

\* The assistant records with a list of blocks that closure p has passed
\* through, as positions of StdoutMsgs(p)
AssistantAt(p) ==
  {k \in 1..Len(StdoutMsgs(p)) :
     LET e == StdoutMsgs(p)[k] IN
     /\ e.type = "agent_event" /\ e.event # Null
     /\ KeyOf(e.event, "type") = "assistant" /\ Has(ContentOf(e.event), "array")}

C25_DispatchIsExclusive ==
  [][\A p \in Procs, n \in 1..MaxOutput :
       StdoutData(p, n) =>
         LET m == NewMsgs
             Records == {k \in 1..Len(m) : m[k].type = "agent_event"}
             TypesAfter(k) == [i \in 1..Len(FrameTail(m, k)) |-> FrameTail(m, k)[i].type]
         IN /\ \A k \in Records :
                 LET e == m[k].event
                     type == KeyOf(e, "type")
                 IN IF type = "system" /\ KeyOf(e, "subtype") = "init"
                    THEN TypesAfter(k) = <<"fe_init">>
                    ELSE IF type = "result"
                    THEN TypesAfter(k) = <<"fe_result">>
                    ELSE type \notin {"assistant", "user"} => TypesAfter(k) = <<>>
            /\ (\A k \in Records : KeyOf(m[k].event, "type") # "assistant")
                 => fileChanges'[p] = fileChanges[p]]_vars

\* A session has handled an init record, a result record and a record of an
\* unknown kind that holds a Write block: fe_init, fe_result and nothing, and
\* its map is empty.
C25_Witness ==
  \E p \in Procs :
    /\ frames[p] = << <<"jInit">>, <<"jResult">>, <<"jOther">> >>
    /\ [i \in 1..Len(StdoutMsgs(p)) |-> StdoutMsgs(p)[i].type]
         = <<"agent_event", "fe_init", "agent_event", "fe_result", "agent_event">>
    /\ fileChanges[p] = EmptyMap

\* The path as the claim normalizes it: without workDir and its separator when
\* it lies under workDir, unchanged otherwise
Normalized(filePath, workDir) ==
  IF StartsWith(filePath, workDir \o <<"/">>)
  THEN SubSeq(filePath, Len(workDir) + 2, Len(filePath))
  ELSE filePath

\* C26: the path in the description of a Write, Edit or Read tool call is the
\* invocation's path without the working directory and its separator when the
\* path lies under the working directory, and the path unchanged when it does
\* not, also when it merely has the working directory as a string prefix
\* (working directory /w, path /w2/a).
C26_PathOutsidePassesThrough ==
  \A k \in LogIdx :
    (TypeAt(k) = "fe_tool_call" /\ log[k].msg.tool \in {"write", "edit", "read"}
       /\ Has(log[k].msg, "filePath")) =>
      SubSeq(log[k].msg.description, 2, Len(log[k].msg.description))
        = Normalized(log[k].msg.filePath, workDirs[log[k].proc])

\* The messages closure p adds to the log in a step
NewBy(p) == {i \in (Len(log) + 1)..Len(log') : log'[i].proc = p}

\* C27: a subprocess that exits with a non-empty decoder remainder has that
\* remainder discarded.  The close step broadcasts the session_end and nothing
\* else and leaves the remainder where it is, the events of the session are
\* then those of its complete lines (the agent_events carry the records of the
\* complete lines that parse, every raw_output carries a complete line), and a
\* closed session broadcasts nothing any more.
C27_RemainderIsDiscarded ==
  [][\A p \in Procs :
       /\ (pstate[p] = "running" /\ pstate'[p] = "closed" /\ buffer[p] # <<>>) =>
            /\ buffer'[p] = buffer[p]
            /\ frames'[p] = frames[p]
            /\ Len(NewMsgs) = 1
            /\ NewMsgs[1].type = "session_end" /\ NewMsgs[1].sessionId = sid[p]
            /\ PassedThrough(p) = ParsedFrames(p)
            /\ \A k \in LogIdx :
                 IsAt(k, p, "raw_output") =>
                   \E i \in 1..Len(frames[p]) : frames[p][i] = log[k].msg.text
       /\ pstate[p] = "closed" => NewBy(p) = {}]_vars

\* A subprocess has exited after writing a whole record without the newline
\* that ends it: the record stays in the remainder and the session has
\* broadcast its start and its end only.
C27_Witness ==
  \E p \in Procs :
    /\ pstate[p] = "closed"
    /\ JSONparse(buffer[p]).ok
    /\ frames[p] = <<>>
    /\ StdoutMsgs(p) = <<>>
    /\ CountOf(p, "session_end") = 1

====
